---------------------------- MODULE Spec2Model ----------------------------
(***************************************************************************)
(* Verification model of two parts of CPPurses:                            *)
(*                                                                         *)
(*   - cppurses::layout::detail::Layout_span                               *)
(*       (include/cppurses/widget/layouts/detail/layout_span.hpp)          *)
(*     the view a linear layout iterates to hand out space to children;    *)
(*   - cppurses::System  (src/system/system.cpp)                           *)
(*     head widget, event posting, exit flag and run().                    *)
(*                                                                         *)
(* The two parts share no state.  SpecSpan runs the Layout_span machine,   *)
(* SpecScenario runs it on the two-children scenario of the specification, *)
(* SpecSys runs the System machine.                                        *)
(***************************************************************************)
EXTENDS Integers, Sequences, FiniteSets

(***************************************************************************)
(* Bounds of the model.                                                    *)
(***************************************************************************)
MaxChildren == 2      \* children of the laid out widget
MaxLen      == 2      \* largest min / hint / max of a Size_policy
MaxStretch  == 2      \* largest stretch of a Size_policy
MaxSpan     == 4      \* largest primary_length handed to the constructor
MaxWidgets  == 2      \* widgets the application owns
MaxDim      == 2      \* largest terminal width / height
MaxQueue    == 1      \* events the callers leave pending in the queue
MaxRuns     == 2      \* calls of run() that return
MaxExitCode == 1      \* largest exit code handed to exit()
MaxPosts    == 4      \* events appended while the event engine is followed

\* Dimension::widget is a pointer; a non-null pointer is modelled by the
\* position (1..n) of the child it points to.
NULL == 0

VARIABLES
    children,                \* Child_view_t children: the Size_policy of each
    primary_length,          \* constructor argument
    dimensions_,             \* Layout_span::dimensions_
    total_stretch_,          \* Layout_span::total_stretch_
    total_inverse_stretch_,  \* Layout_span::total_inverse_stretch_,
                             \*   in units of 1/InverseUnit
    iter_,                   \* Iterator::iter_ of the iterator last returned
                             \*   (0: no iterator was returned yet)
    limit_                   \* Iterator::get_limit_: "max", "min" or "none"

spanVars == <<children, primary_length, dimensions_, total_stretch_,
              total_inverse_stretch_, iter_, limit_>>

VARIABLES
    head_,                   \* System::head_ (NULL or a widget)
    initial_focus_,          \* System::initial_focus_
    exit_requested_,         \* System::exit_requested_
    exit_signal_,            \* payloads System::exit_signal was raised with,
                             \*   each with the flag a slot saw
    enabled,                 \* the widgets whose enabled flag is set
    focused,                 \* Focus: the focused widget, or NULL
    queue,                   \* Event_engine::get().queue()
    terminal_initialized,    \* Terminal: between initialize and uninitialize
    term_width, term_height, \* what terminal.width() / height() return
    return_code_,            \* the dispatch loop's exit code
    pc,                      \* where run() stands
    returned,                \* the values run() returned, oldest first
    head_arg,                \* the argument of the latest set_head call
    former_heads             \* the widgets set_head has replaced as head

sysVars == <<head_, initial_focus_, exit_requested_, exit_signal_, enabled,
             focused, queue, terminal_initialized, term_width, term_height,
             return_code_, pc, returned, head_arg, former_heads>>

VARIABLES
    batch,                   \* Event_engine: the events one drain took and the
                             \*   dispatch cycle has not dispatched yet
    cycle,                   \* the dispatch cycles started so far
    posted,                  \* every event appended, oldest first, each with
                             \*   the value of cycle when it was appended
    dispatched               \* every event dispatched, oldest first, each
                             \*   with the cycle that dispatched it

engineVars == <<batch, cycle, posted, dispatched>>

VARIABLES
    grow_pc,                 \* the layout's distribution loop: "begin" before
                             \*   a round, "walk" inside it, "done" after
    rounds,                  \* the rounds the loop has started
    incs,                    \* the increments of the round's traversal
    pinned                   \* whether the round has removed an entry

growVars == <<grow_pc, rounds, incs, pinned>>

vars == <<spanVars, sysVars, engineVars, growVars>>

(***************************************************************************)
(* Size_policy: min <= hint <= max, stretch > 0.                           *)
(***************************************************************************)
Policies ==
    {p \in [min : 0..MaxLen, hint : 0..MaxLen, max : 0..MaxLen,
            stretch : 1..MaxStretch] : p.min <= p.hint /\ p.hint <= p.max}

ChildLists == UNION {[1..n -> Policies] : n \in 0..MaxChildren}

RECURSIVE Factorial(_)
Factorial(n) == IF n <= 1 THEN 1 ELSE n * Factorial(n - 1)

\* 1. / stretch is a double; every 1/s with s in 1..MaxStretch is a whole
\* number of units of 1/InverseUnit.
InverseUnit == Factorial(MaxStretch)

(***************************************************************************)
(* Layout_span::build_dimensions                                           *)
(***************************************************************************)
RECURSIVE build_loop(_, _, _, _, _)
build_loop(chs, pl, k, min_running_total, result) ==
    IF k > Len(chs) THEN result
    ELSE LET total == min_running_total + chs[k].min
         IN  build_loop(chs, pl, k + 1, total,
                 Append(result,
                        IF total > pl
                        THEN [widget |-> NULL, length |-> 0]
                        ELSE [widget |-> k, length |-> chs[k].hint]))

\* A build that leaves a child that does not fit out of the running total, so
\* that a later, smaller child may still fit.
RECURSIVE build_loop_skip(_, _, _, _, _)
build_loop_skip(chs, pl, k, min_running_total, result) ==
    IF k > Len(chs) THEN result
    ELSE LET total == min_running_total + chs[k].min
         IN  IF total > pl
             THEN build_loop_skip(chs, pl, k + 1, min_running_total,
                      Append(result, [widget |-> NULL, length |-> 0]))
             ELSE build_loop_skip(chs, pl, k + 1, total,
                      Append(result, [widget |-> k, length |-> chs[k].hint]))

\* A build that seeds the surviving children with min instead of hint.
RECURSIVE build_loop_min(_, _, _, _, _)
build_loop_min(chs, pl, k, min_running_total, result) ==
    IF k > Len(chs) THEN result
    ELSE LET total == min_running_total + chs[k].min
         IN  build_loop_min(chs, pl, k + 1, total,
                 Append(result,
                        IF total > pl
                        THEN [widget |-> NULL, length |-> 0]
                        ELSE [widget |-> k, length |-> chs[k].min]))

build_dimensions_min(chs, pl) == build_loop_min(chs, pl, 1, 0, <<>>)

build_dimensions_skip(chs, pl) == build_loop_skip(chs, pl, 1, 0, <<>>)

build_dimensions(chs, pl) == build_loop(chs, pl, 1, 0, <<>>)

(***************************************************************************)
(* The accessors.                                                          *)
(***************************************************************************)
RECURSIVE SumLengths(_, _)
SumLengths(dims, k) ==
    IF k > Len(dims) THEN 0 ELSE dims[k].length + SumLengths(dims, k + 1)

entire_length == SumLengths(dimensions_, 1)

size_of(dims) == Cardinality({k \in 1..Len(dims) : dims[k].widget # NULL})

size == size_of(dimensions_)

get_results_of(dims) == [k \in 1..Len(dims) |-> dims[k].length]

get_results == get_results_of(dimensions_)

end_of(dims) == Len(dims) + 1

end == end_of(dimensions_)

total_stretch == total_stretch_

total_inverse_stretch == total_inverse_stretch_

\* get_policy_(*d.widget), for a non-null d.widget
get_policy(d) == children[d.widget]

get_limit(kind, p) == IF kind = "max" THEN p.max ELSE p.min

(***************************************************************************)
(* calculate_total_stretch / calculate_total_inverse_stretch               *)
(***************************************************************************)
RECURSIVE stretch_from(_, _)
stretch_from(dims, k) ==
    IF k > Len(dims) THEN 0
    ELSE (IF dims[k].widget # NULL THEN get_policy(dims[k]).stretch ELSE 0)
         + stretch_from(dims, k + 1)

calculate_total_stretch == stretch_from(dimensions_, 1)

RECURSIVE inverse_stretch_from(_, _)
inverse_stretch_from(dims, k) ==
    IF k > Len(dims) THEN 0
    ELSE (IF dims[k].widget # NULL
          THEN InverseUnit \div get_policy(dims[k]).stretch ELSE 0)
         + inverse_stretch_from(dims, k + 1)

calculate_total_inverse_stretch == inverse_stretch_from(dimensions_, 1)

(***************************************************************************)
(* Iterator                                                                *)
(***************************************************************************)
\* while (iter_ != end && iter_->widget == nullptr) ++iter_;
RECURSIVE skip_removed(_, _)
skip_removed(dims, pos) ==
    IF pos < end_of(dims) /\ dims[pos].widget = NULL
    THEN skip_removed(dims, pos + 1)
    ELSE pos

\* The outcomes of  iter_->length == get_limit_(get_policy_(*iter_->widget)).
\* On a removed entry the widget pointer is null and the comparison reads
\* through it: either outcome.
at_limit(dims, pos, kind) ==
    IF dims[pos].widget = NULL THEN BOOLEAN
    ELSE {dims[pos].length = get_limit(kind, get_policy(dims[pos]))}

\* An increment that never drops the entry it leaves.
increment_dims_keep(dims, pos, hit) == dims

\* An increment that clears the whole entry it drops.
increment_dims_zero(dims, pos, hit) ==
    IF hit THEN [dims EXCEPT ![pos] = [widget |-> NULL, length |-> 0]]
    ELSE dims

\* if (...) iter_->widget = nullptr;
increment_dims(dims, pos, hit) ==
    IF hit THEN [dims EXCEPT ![pos].widget = NULL] ELSE dims

\* An increment that steps to the next entry, removed or not.
increment_pos_noskip(dims, pos) == pos + 1

\* do { ++iter_; } while (iter_ != end_ && iter_->widget == nullptr);
increment_pos(dims, pos) == skip_removed(dims, pos + 1)

\* Layout_span::begin : a temporary iterator runs over the whole container.
RECURSIVE run_to_end(_, _, _)
run_to_end(dims, pos, kind) ==
    IF pos = end_of(dims) THEN dims
    ELSE LET hit  == CHOOSE b \in at_limit(dims, pos, kind) : TRUE
             next == increment_dims(dims, pos, hit)
         IN  run_to_end(next, increment_pos(next, pos), kind)

\* A begin that points every entry at its child again.
begin_dims_restore(dims, kind) ==
    [k \in 1..Len(dims) |-> [dims[k] EXCEPT !.widget = k]]

\* A begin that returns the iterator without the invalidating run.
begin_dims_norun(dims, kind) == dims

begin_dims(dims, kind) == run_to_end(dims, skip_removed(dims, 1), kind)

(***************************************************************************)
(* The Layout_span machine.                                                *)
(***************************************************************************)
SpanInit ==
    /\ children \in ChildLists
    /\ primary_length \in 0..MaxSpan
    /\ dimensions_ = build_dimensions(children, primary_length)
    /\ total_stretch_ = 0
    /\ total_inverse_stretch_ = 0
    /\ iter_ = 0
    /\ limit_ = "none"

\* The value begin_max stores in total_stretch_: computed before begin() runs.
stored_total_stretch == calculate_total_stretch

\* What the calls do to the Layout_span and its iterator.
begin_max_call ==
    /\ total_stretch_' = stored_total_stretch
    /\ dimensions_' = begin_dims(dimensions_, "max")
    /\ iter_' = skip_removed(dimensions_', 1)
    /\ limit_' = "max"
    /\ UNCHANGED <<children, primary_length, total_inverse_stretch_>>

begin_min_call ==
    /\ total_inverse_stretch_' = calculate_total_inverse_stretch
    /\ dimensions_' = begin_dims(dimensions_, "min")
    /\ iter_' = skip_removed(dimensions_', 1)
    /\ limit_' = "min"
    /\ UNCHANGED <<children, primary_length, total_stretch_>>

\* ++iter by the caller, who advances while iter != end().
increment_call ==
    /\ iter_ # 0 /\ iter_ # end
    /\ \E hit \in at_limit(dimensions_, iter_, limit_) :
          /\ dimensions_' = increment_dims(dimensions_, iter_, hit)
          /\ iter_' = increment_pos(dimensions_', iter_)
    /\ UNCHANGED <<children, primary_length, total_stretch_,
                   total_inverse_stretch_, limit_>>

\* iter->length = v by the caller, through operator* / operator->.
write_length_call ==
    /\ iter_ # 0 /\ iter_ # end
    /\ \E v \in 0..(MaxLen + 1) :
          /\ v # dimensions_[iter_].length
          /\ dimensions_' = [dimensions_ EXCEPT ![iter_].length = v]
    /\ UNCHANGED <<children, primary_length, total_stretch_,
                   total_inverse_stretch_, iter_, limit_>>

begin_max == begin_max_call /\ UNCHANGED <<sysVars, engineVars, growVars>>

begin_min == begin_min_call /\ UNCHANGED <<sysVars, engineVars, growVars>>

increment == increment_call /\ UNCHANGED <<sysVars, engineVars, growVars>>

write_length ==
    write_length_call /\ UNCHANGED <<sysVars, engineVars, growVars>>

SpanNext == begin_max \/ begin_min \/ increment \/ write_length

(***************************************************************************)
(* The distribution loop of the layout that owns the Layout_span:           *)
(*   while (size() > 0) { one round; if the round pinned nothing, stop }    *)
(* A round is begin_max() or begin_min() and one traversal to end(), in     *)
(* which the layout writes the length of the entries it is given.           *)
(***************************************************************************)
round_begin_max ==
    /\ grow_pc = "begin"
    /\ size > 0
    /\ rounds < MaxChildren + 1
    /\ begin_max_call
    /\ grow_pc' = "walk"
    /\ rounds' = rounds + 1
    /\ incs' = 0
    /\ pinned' = (size_of(dimensions_') < size)
    /\ UNCHANGED <<sysVars, engineVars>>

round_begin_min ==
    /\ grow_pc = "begin"
    /\ size > 0
    /\ rounds < MaxChildren + 1
    /\ begin_min_call
    /\ grow_pc' = "walk"
    /\ rounds' = rounds + 1
    /\ incs' = 0
    /\ pinned' = (size_of(dimensions_') < size)
    /\ UNCHANGED <<sysVars, engineVars>>

round_write ==
    /\ grow_pc = "walk"
    /\ write_length_call
    /\ UNCHANGED <<sysVars, engineVars, growVars>>

round_increment ==
    /\ grow_pc = "walk"
    /\ incs < MaxChildren + 1
    /\ increment_call
    /\ incs' = incs + 1
    /\ pinned' = (pinned \/ size_of(dimensions_') < size)
    /\ UNCHANGED <<grow_pc, rounds, sysVars, engineVars>>

\* The traversal reached end(): another round if this one pinned an entry.
round_end ==
    /\ grow_pc = "walk"
    /\ iter_ = end
    /\ grow_pc' = IF pinned THEN "begin" ELSE "done"
    /\ UNCHANGED <<spanVars, sysVars, engineVars, rounds, incs, pinned>>

\* No entry is left in the pool.
loop_stop ==
    /\ grow_pc = "begin"
    /\ size = 0
    /\ grow_pc' = "done"
    /\ UNCHANGED <<spanVars, sysVars, engineVars, rounds, incs, pinned>>

GrowNext ==
    \/ round_begin_max
    \/ round_begin_min
    \/ round_write
    \/ round_increment
    \/ round_end
    \/ loop_stop

\* Traversals that only pin: the caller never writes a length.
PinNext == begin_max \/ begin_min \/ increment

(***************************************************************************)
(* The two-children scenario: min 20 then min 5, in a span of 10 (and, for  *)
(* comparison, in a span that holds both).                                 *)
(***************************************************************************)
ScenarioPolicies(m) ==
    {p \in [min : {m}, hint : m..(m + 1), max : m..(m + 1),
            stretch : 1..MaxStretch] : p.hint <= p.max}

ScenarioInit ==
    /\ children \in {<<p1, p2>> : p1 \in ScenarioPolicies(20),
                                  p2 \in ScenarioPolicies(5)}
    /\ primary_length \in {10, 25}
    /\ dimensions_ = build_dimensions(children, primary_length)
    /\ total_stretch_ = 0
    /\ total_inverse_stretch_ = 0
    /\ iter_ = 0
    /\ limit_ = "none"

(***************************************************************************)
(* System                                                                  *)
(***************************************************************************)
Widgets == 1..MaxWidgets

ExitCodes == 0..MaxExitCode

Area(w, h) == [width |-> w, height |-> h]

Resize_event(receiver, area) ==
    [type |-> "Resize", receiver |-> receiver, area |-> area]

\* The event the animation engine's ticker posts.
Timer_event(receiver) ==
    [type |-> "Timer", receiver |-> receiver, area |-> Area(0, 0)]

\* An append that puts the event in front of the pending ones.
post_event_front(q, event) == <<event>> \o q

\* An append that keeps a single pending event.
post_event_replace(q, event) == <<event>>

\* System::post_event : Event_engine::get().queue().append(std::move(event))
post_event(q, event) == Append(q, event)

\* Widget::disable : the flag is cleared, and a disabled widget holds no
\* focus.  Widget::enable : the flag is set.
enabled_after_disable(en, w) == en \ {w}

focused_after_disable(f, w) == IF f = w THEN NULL ELSE f

enabled_after_enable(en, w) == en \cup {w}

\* Focus::set_focus_to : the focused pointer moves to w; no widget holds the
\* focus while disabled.
focused_after_set_focus_to(f, en, w) == IF w \in en THEN w ELSE f

disable(w) ==
    /\ enabled' = enabled_after_disable(enabled, w)
    /\ focused' = focused_after_disable(focused, w)

SysInit ==
    /\ head_ = NULL
    /\ initial_focus_ = NULL
    /\ exit_requested_ = FALSE
    /\ exit_signal_ = {}
    /\ enabled = {}
    /\ focused = NULL
    /\ queue = <<>>
    /\ terminal_initialized = FALSE
    /\ term_width \in 1..MaxDim
    /\ term_height \in 1..MaxDim
    /\ return_code_ = 0
    /\ pc = "idle"
    /\ returned = <<>>
    /\ head_arg = NULL
    /\ former_heads = {}

\* A set_head that leaves the previous head enabled.
set_head_keep(new_head) ==
    /\ head_' = new_head
    /\ enabled' = IF new_head # NULL
                  THEN enabled_after_enable(enabled, new_head) ELSE enabled
    /\ focused' = focused
    /\ queue' = IF new_head # NULL
                THEN post_event(queue, Resize_event(new_head,
                                    Area(term_width, term_height)))
                ELSE queue

\* System::set_head
set_head(new_head) ==
    /\ head_' = new_head
    /\ enabled' = LET after_disable ==
                          IF head_ # NULL
                          THEN enabled_after_disable(enabled, head_)
                          ELSE enabled
                  IN  IF new_head # NULL
                      THEN enabled_after_enable(after_disable, new_head)
                      ELSE after_disable
    /\ focused' = IF head_ # NULL
                  THEN focused_after_disable(focused, head_) ELSE focused
    /\ queue' = IF new_head # NULL
                THEN post_event(queue, Resize_event(new_head,
                                    Area(term_width, term_height)))
                ELSE queue

\* set_head called by the application, before run() or from a handler the
\* dispatch loop runs.
SetHeadCall(new_head) ==
    /\ pc \in {"idle", "loop"}
    /\ new_head = NULL \/ Len(queue) < MaxQueue
    /\ set_head(new_head)
    /\ head_arg' = new_head
    /\ former_heads' = IF head_ # NULL /\ head_ # new_head
                       THEN former_heads \cup {head_}
                       ELSE former_heads
    /\ UNCHANGED <<initial_focus_, exit_requested_, exit_signal_,
                   terminal_initialized, term_width, term_height,
                   return_code_, pc, returned, spanVars,
                   engineVars, growVars>>

SetHead == \E new_head \in Widgets \cup {NULL} : SetHeadCall(new_head)

\* The first lines of run() without the test of the head.
run_enter_unchecked ==
    /\ pc = "idle"
    /\ Len(returned) < MaxRuns
    /\ pc' = "focus"
    /\ UNCHANGED <<head_, initial_focus_, exit_requested_, exit_signal_,
                   enabled, focused, queue, terminal_initialized, term_width,
                   term_height, return_code_, returned, spanVars,
                   head_arg, former_heads,
                   engineVars, growVars>>

\* System::run, lines 73-74: without a head run() returns -1 at once.
run_enter ==
    /\ pc = "idle"
    /\ Len(returned) < MaxRuns
    /\ IF head_ = NULL
       THEN /\ returned' = Append(returned, -1)
            /\ pc' = pc
       ELSE /\ returned' = returned
            /\ pc' = "focus"
    /\ UNCHANGED <<head_, initial_focus_, exit_requested_, exit_signal_,
                   enabled, focused, queue, terminal_initialized, term_width,
                   term_height, return_code_, spanVars,
                   head_arg, former_heads,
                   engineVars, growVars>>

\* The initial-focus step without the call of enable.
run_initial_focus_noenable ==
    /\ pc = "focus"
    /\ IF initial_focus_ # NULL
       THEN /\ enabled' = enabled
            /\ focused' = focused_after_set_focus_to(focused, enabled',
                                                     initial_focus_)
       ELSE UNCHANGED <<enabled, focused>>
    /\ pc' = "init"
    /\ UNCHANGED <<head_, initial_focus_, exit_requested_, exit_signal_, queue,
                   terminal_initialized, term_width, term_height,
                   return_code_, returned, spanVars,
                   head_arg, former_heads,
                   engineVars, growVars>>

\* System::run, lines 75-79: the pre-selected widget is enabled and focused.
run_initial_focus ==
    /\ pc = "focus"
    /\ IF initial_focus_ # NULL
       THEN /\ enabled' = enabled_after_enable(enabled, initial_focus_)
            /\ focused' = focused_after_set_focus_to(focused, enabled',
                                                     initial_focus_)
       ELSE UNCHANGED <<enabled, focused>>
    /\ pc' = "init"
    /\ UNCHANGED <<head_, initial_focus_, exit_requested_, exit_signal_, queue,
                   terminal_initialized, term_width, term_height,
                   return_code_, returned, spanVars,
                   head_arg, former_heads,
                   engineVars, growVars>>

\* A run() that goes on without initializing the terminal.
run_initialize_skipped ==
    /\ pc = "init"
    /\ terminal_initialized' = terminal_initialized
    /\ pc' = "resize"
    /\ UNCHANGED <<head_, initial_focus_, exit_requested_, exit_signal_,
                   enabled, focused, queue, term_width, term_height,
                   return_code_, returned, spanVars,
                   head_arg, former_heads,
                   engineVars, growVars>>

\* System::run, line 80
run_initialize ==
    /\ pc = "init"
    /\ terminal_initialized' = TRUE
    /\ pc' = "resize"
    /\ UNCHANGED <<head_, initial_focus_, exit_requested_, exit_signal_,
                   enabled, focused, queue, term_width, term_height,
                   return_code_, returned, spanVars,
                   head_arg, former_heads,
                   engineVars, growVars>>

\* System::run, lines 81-82
run_post_resize ==
    /\ pc = "resize"
    /\ queue' = post_event(queue, Resize_event(head_,
                                      Area(term_width, term_height)))
    /\ pc' = "loop"
    /\ UNCHANGED <<head_, initial_focus_, exit_requested_, exit_signal_,
                   enabled, focused, terminal_initialized, term_width,
                   term_height, return_code_, returned, spanVars,
                   head_arg, former_heads,
                   engineVars, growVars>>

\* System::run, line 83: one cycle of the dispatch loop takes the events that
\* are pending and dispatches them.
loop_cycle ==
    /\ pc = "loop"
    /\ ~exit_requested_
    /\ queue # <<>>
    /\ queue' = <<>>
    /\ UNCHANGED <<head_, initial_focus_, exit_requested_, exit_signal_,
                   enabled, focused, terminal_initialized, term_width,
                   term_height, return_code_, pc, returned, spanVars,
                   head_arg, former_heads,
                   engineVars, growVars>>

\* System::run, line 83: the loop sees the exit flag and ends.
loop_exit ==
    /\ pc = "loop"
    /\ exit_requested_
    /\ pc' = "uninit"
    /\ UNCHANGED <<head_, initial_focus_, exit_requested_, exit_signal_,
                   enabled, focused, queue, terminal_initialized, term_width,
                   term_height, return_code_, returned, spanVars,
                   head_arg, former_heads,
                   engineVars, growVars>>

\* System::run, lines 84-85
run_uninitialize ==
    /\ pc = "uninit"
    /\ terminal_initialized' = FALSE
    /\ returned' = Append(returned, return_code_)
    /\ pc' = "idle"
    /\ UNCHANGED <<head_, initial_focus_, exit_requested_, exit_signal_,
                   enabled, focused, queue, term_width, term_height,
                   return_code_, spanVars,
                   head_arg, former_heads,
                   engineVars, growVars>>

\* An exit that raises the signal before it sets the flag.
exit_raised_first(exit_code) ==
    /\ exit_signal_' = exit_signal_ \cup
           {[payload |-> exit_code, exit_requested |-> exit_requested_]}
    /\ exit_requested_' = TRUE
    /\ return_code_' = exit_code

\* System::exit : the flag is set, then exit_signal(exit_code) is raised; the
\* dispatch loop, a subscriber of the signal, keeps the code as its exit code.
\* exit_signal_ keeps, with each payload, the value the flag had when the
\* signal was raised: what a slot of the signal reads.
exit(exit_code) ==
    /\ exit_requested_' = TRUE
    /\ exit_signal_' = exit_signal_ \cup
           {[payload |-> exit_code, exit_requested |-> exit_requested_']}
    /\ return_code_' = exit_code

Exit ==
    /\ pc \in {"idle", "loop"}
    /\ \E exit_code \in ExitCodes : exit(exit_code)
    /\ UNCHANGED <<head_, initial_focus_, enabled, focused, queue,
                   terminal_initialized, term_width, term_height, pc,
                   returned, spanVars,
                   head_arg, former_heads,
                   engineVars, growVars>>

\* The application pre-selects the widget that gets the focus in run().
set_initial_focus ==
    /\ pc = "idle"
    /\ \E w \in Widgets : initial_focus_' = w
    /\ UNCHANGED <<head_, exit_requested_, exit_signal_, enabled, focused,
                   queue, terminal_initialized, term_width, term_height,
                   return_code_, pc, returned, spanVars,
                   head_arg, former_heads,
                   engineVars, growVars>>

\* The application, or a handler the dispatch loop runs, moves the focus.
set_focus_to ==
    /\ pc \in {"idle", "loop"}
    /\ \E w \in Widgets :
          focused' = focused_after_set_focus_to(focused, enabled, w)
    /\ UNCHANGED <<head_, initial_focus_, exit_requested_, exit_signal_,
                   enabled, queue, terminal_initialized, term_width,
                   term_height, return_code_, pc, returned, spanVars,
                   head_arg, former_heads,
                   engineVars, growVars>>

\* The application disables a widget.
widget_disable ==
    /\ pc \in {"idle", "loop"}
    /\ \E w \in enabled : disable(w)
    /\ UNCHANGED <<head_, initial_focus_, exit_requested_, exit_signal_, queue,
                   terminal_initialized, term_width, term_height,
                   return_code_, pc, returned, spanVars,
                   head_arg, former_heads,
                   engineVars, growVars>>

\* The animation engine's ticker appends a Timer event, at any time.
animation_tick ==
    /\ Len(queue) < MaxQueue
    /\ \E w \in Widgets : queue' = post_event(queue, Timer_event(w))
    /\ UNCHANGED <<head_, initial_focus_, exit_requested_, exit_signal_,
                   enabled, focused, terminal_initialized, term_width,
                   term_height, return_code_, pc, returned, spanVars,
                   head_arg, former_heads,
                   engineVars, growVars>>

\* The terminal is resized by the user.
terminal_resize ==
    /\ \E w \in 1..MaxDim, h \in 1..MaxDim :
          /\ <<w, h>> # <<term_width, term_height>>
          /\ term_width' = w
          /\ term_height' = h
    /\ UNCHANGED <<head_, initial_focus_, exit_requested_, exit_signal_,
                   enabled, focused, queue, terminal_initialized,
                   return_code_, pc, returned, spanVars,
                   head_arg, former_heads,
                   engineVars, growVars>>

SysNext ==
    \/ SetHead
    \/ run_enter
    \/ run_initial_focus
    \/ run_initialize
    \/ run_post_resize
    \/ loop_cycle
    \/ loop_exit
    \/ run_uninitialize
    \/ Exit
    \/ set_initial_focus
    \/ set_focus_to
    \/ widget_disable
    \/ animation_tick
    \/ terminal_resize

(***************************************************************************)
(* The event engine, followed event by event: System::post_event appends,   *)
(* the dispatch loop drains the queue and dispatches what it took.          *)
(***************************************************************************)
\* The bookkeeping of one append.
posted_after(e) ==
    Append(posted, [event |-> e, at |-> cycle, during |-> batch # <<>>])

\* System::post_event called in the dispatch context: by the application
\* between two cycles, or by the handler of the event being dispatched.
engine_post ==
    /\ Len(posted) < MaxPosts
    /\ \E w \in Widgets :
          LET e == Resize_event(w, Area(term_width, term_height))
          IN  /\ queue' = post_event(queue, e)
              /\ posted' = posted_after(e)
    /\ UNCHANGED <<head_, initial_focus_, exit_requested_, exit_signal_,
                   enabled, focused, terminal_initialized, term_width,
                   term_height, return_code_, pc, returned, spanVars,
                   head_arg, former_heads, batch, cycle, dispatched,
                   growVars>>

\* The animation engine's ticker appends from its own thread, at any time.
ticker_append ==
    /\ Len(posted) < MaxPosts
    /\ \E w \in Widgets :
          LET e == Timer_event(w)
          IN  /\ queue' = post_event(queue, e)
              /\ posted' = posted_after(e)
    /\ UNCHANGED <<head_, initial_focus_, exit_requested_, exit_signal_,
                   enabled, focused, terminal_initialized, term_width,
                   term_height, return_code_, pc, returned, spanVars,
                   head_arg, former_heads, batch, cycle, dispatched,
                   growVars>>

\* A dispatch cycle starts: the engine takes the whole queue at once and
\* leaves it empty.
engine_drain ==
    /\ pc = "loop"
    /\ batch = <<>>
    /\ queue # <<>>
    /\ batch' = queue
    /\ queue' = <<>>
    /\ cycle' = cycle + 1
    /\ UNCHANGED <<head_, initial_focus_, exit_requested_, exit_signal_,
                   enabled, focused, terminal_initialized, term_width,
                   term_height, return_code_, pc, returned, spanVars,
                   head_arg, former_heads, posted, dispatched, growVars>>

\* The cycle dispatches the next event it took.
engine_dispatch ==
    /\ pc = "loop"
    /\ batch # <<>>
    /\ dispatched' = Append(dispatched, [event |-> Head(batch), in |-> cycle])
    /\ batch' = Tail(batch)
    /\ UNCHANGED <<head_, initial_focus_, exit_requested_, exit_signal_,
                   enabled, focused, queue, terminal_initialized, term_width,
                   term_height, return_code_, pc, returned, spanVars,
                   head_arg, former_heads, cycle, posted, growVars>>

QueueNext ==
    \/ engine_post
    \/ ticker_append
    \/ engine_drain
    \/ engine_dispatch

\* run() stands in its dispatch loop, the first Resize event dispatched.
SysInLoop ==
    /\ head_ = 1
    /\ initial_focus_ = NULL
    /\ exit_requested_ = FALSE
    /\ exit_signal_ = {}
    /\ enabled = {1}
    /\ focused = NULL
    /\ queue = <<>>
    /\ terminal_initialized = TRUE
    /\ term_width = 1
    /\ term_height = 1
    /\ return_code_ = 0
    /\ pc = "loop"
    /\ returned = <<>>
    /\ head_arg = 1
    /\ former_heads = {}

\* The Layout_span machine stands still while System runs, and conversely.
SpanIdle ==
    /\ children = <<>>
    /\ primary_length = 0
    /\ dimensions_ = <<>>
    /\ total_stretch_ = 0
    /\ total_inverse_stretch_ = 0
    /\ iter_ = 0
    /\ limit_ = "none"

SysIdle ==
    /\ SysInit
    /\ term_width = 1
    /\ term_height = 1

\* No event was appended or dispatched yet.
EngineIdle ==
    /\ batch = <<>>
    /\ cycle = 0
    /\ posted = <<>>
    /\ dispatched = <<>>

\* The distribution loop has not started.
GrowIdle ==
    /\ grow_pc = "begin"
    /\ rounds = 0
    /\ incs = 0
    /\ pinned = FALSE

InitSpan == SpanInit /\ SysIdle /\ EngineIdle /\ GrowIdle

InitScenario == ScenarioInit /\ SysIdle /\ EngineIdle /\ GrowIdle

InitSys == SysInit /\ SpanIdle /\ EngineIdle /\ GrowIdle

InitQueue == SysInLoop /\ SpanIdle /\ EngineIdle /\ GrowIdle

SpecSpan == InitSpan /\ [][SpanNext]_vars

SpecScenario == InitScenario /\ [][SpanNext]_vars

SpecPin == InitSpan /\ [][PinNext]_vars

SpecGrow == InitSpan /\ [][GrowNext]_vars

SpecSys == InitSys /\ [][SysNext]_vars

SpecQueue == InitQueue /\ [][QueueNext]_vars

\* The dispatch loop keeps running: it starts a cycle when events are pending
\* and dispatches every event the cycle took.
SpecQueueFair ==
    /\ InitQueue
    /\ [][QueueNext]_vars
    /\ WF_vars(engine_drain)
    /\ WF_vars(engine_dispatch)

\* The thread inside run() keeps running: the dispatch loop reaches its next
\* iteration boundary, and run() goes on after the loop.
SpecSysFair ==
    /\ InitSys
    /\ [][SysNext]_vars
    /\ WF_vars(loop_exit)
    /\ WF_vars(run_uninitialize)

(***************************************************************************)
(* What the claims speak of, stated without the code's loops.              *)
(***************************************************************************)
RECURSIVE SumMin(_, _)
SumMin(chs, k) == IF k = 0 THEN 0 ELSE chs[k].min + SumMin(chs, k - 1)

RECURSIVE SumHint(_, _)
SumHint(chs, k) == IF k = 0 THEN 0 ELSE chs[k].hint + SumHint(chs, k - 1)

\* The length of the longest prefix of the children whose minimums fit.
LongestPrefix ==
    LET fits == {m \in 0..Len(children) : SumMin(children, m) <= primary_length}
    IN  CHOOSE m \in fits : \A o \in fits : o <= m

Excluded == [widget |-> NULL, length |-> 0]

IsFixed(p) == p.min = p.hint /\ p.hint = p.max

RECURSIVE GrowableStretch(_, _)
GrowableStretch(dims, k) ==
    IF k > Len(dims) THEN 0
    ELSE (IF dims[k].widget # NULL /\ dims[k].length < children[k].max
          THEN children[k].stretch ELSE 0)
         + GrowableStretch(dims, k + 1)

(***************************************************************************)
(* C1: right after construction the children left out (no widget, length 0) *)
(* are exactly those behind the longest prefix whose minimums sum to at     *)
(* most the span, and every child of that prefix is seeded with its hint.   *)
(***************************************************************************)
C1_StarvationOrder ==
    limit_ = "none" =>
        /\ Len(dimensions_) = Len(children)
        /\ \A k \in 1..Len(children) :
              IF k <= LongestPrefix
              THEN dimensions_[k] = [widget |-> k, length |-> children[k].hint]
              ELSE dimensions_[k] = Excluded

\* The first child does not fit; the second would fit alone and is left out too.
C1_Witness ==
    /\ limit_ = "none"
    /\ Len(children) = 2
    /\ children[1].min > primary_length
    /\ children[2].min <= primary_length
    /\ dimensions_[1] = Excluded
    /\ dimensions_[2] = Excluded

(***************************************************************************)
(* C2 as stated: in every state reached by construction, begin_max() /      *)
(* begin_min() and traversals that only pin, entire_length() is at most the *)
(* available span.                                                         *)
(***************************************************************************)
C2_Original == entire_length <= primary_length

(***************************************************************************)
(* C2 as amended: in every such state entire_length() is the sum of the     *)
(* hints of the children that survived the feasibility pass (whose          *)
(* minimums, not hints, fit the span).                                      *)
(***************************************************************************)
C2_EntireLengthIsHintSum ==
    entire_length = SumHint(children, LongestPrefix)

\* A child is pinned and the combined length is above the span.
C2_Witness ==
    /\ limit_ # "none"
    /\ size < LongestPrefix
    /\ entire_length > primary_length

(***************************************************************************)
(* C3: a surviving child with min = max = hint keeps length hint and is     *)
(* never the entry an iterator from begin_max() / begin_min() stands on,    *)
(* whatever the caller writes through the entries it is given.              *)
(***************************************************************************)
C3_FixedChild ==
    \A k \in 1..Len(children) :
        (k <= LongestPrefix /\ IsFixed(children[k])) =>
            /\ get_results[k] = children[k].hint
            /\ iter_ # k

\* A fixed child in front, a traversal that passed it, and a later entry the
\* caller has written.
C3_Witness ==
    /\ Len(children) = 2
    /\ LongestPrefix = 2
    /\ IsFixed(children[1])
    /\ children[1].hint > 0
    /\ limit_ # "none"
    /\ iter_ = end
    /\ dimensions_[2].length # children[2].hint

C5_Original ==
    (primary_length = 0 /\ limit_ = "none") =>
        \A k \in 1..Len(children) : get_results[k] = 0

(***************************************************************************)
(* C5 as amended: with an available span of 0 the constructor assigns       *)
(* length 0 to the first child with min > 0 and to every child behind it;   *)
(* the children in front of it (min = 0) are seeded with their hint.        *)
(***************************************************************************)
C5_ZeroSpan ==
    (primary_length = 0 /\ limit_ = "none") =>
        \A k \in 1..Len(children) :
            IF \A j \in 1..k : children[j].min = 0
            THEN dimensions_[k] = [widget |-> k, length |-> children[k].hint]
            ELSE dimensions_[k] = Excluded

\* Span 0, one child seeded with a positive hint, another left out.
C5_Witness ==
    /\ primary_length = 0
    /\ limit_ = "none"
    /\ \E k \in 1..Len(children) : get_results[k] > 0
    /\ \E k \in 1..Len(children) : dimensions_[k] = Excluded

(***************************************************************************)
(* C6 as stated: span 10, children with min 20 then min 5: the first is     *)
(* left out with length 0, the second is kept and gets its min of 5.        *)
(***************************************************************************)
C6_Original ==
    (primary_length = 10 /\ children[1].min = 20 /\ children[2].min = 5
        /\ limit_ = "none") =>
        /\ dimensions_[1] = Excluded
        /\ dimensions_[2].widget # NULL
        /\ dimensions_[2].length = 5

(***************************************************************************)
(* C6 as amended: span 10, children with min 20 then min 5: both children   *)
(* are left out with length 0, and stay so.                                 *)
(***************************************************************************)
C6_BothExcluded ==
    (primary_length = 10 /\ children[1].min = 20 /\ children[2].min = 5) =>
        /\ dimensions_ = <<Excluded, Excluded>>
        /\ size = 0

\* The scenario, after a begin_max() or begin_min().
C6_Witness ==
    /\ primary_length = 10
    /\ children[1].min = 20
    /\ children[2].min = 5
    /\ limit_ # "none"
    /\ iter_ = end
    /\ get_results = <<0, 0>>

(***************************************************************************)
(* C7: for the same children, a span built with a larger available span     *)
(* reports no smaller length for any child, and leaves out no child that    *)
(* the smaller span keeps.                                                  *)
(***************************************************************************)
C7_GrowthMonotone ==
    limit_ = "none" =>
        \A s2 \in primary_length..MaxSpan :
            LET larger == build_dimensions(children, s2)
            IN  \A k \in 1..Len(children) :
                    /\ get_results_of(larger)[k] >= get_results[k]
                    /\ dimensions_[k].widget # NULL => larger[k].widget # NULL

\* A child left out at this span and kept, with a positive length, at a
\* larger one.
C7_Witness ==
    /\ limit_ = "none"
    /\ \E s2 \in (primary_length + 1)..MaxSpan :
          \E k \in 1..Len(children) :
              /\ dimensions_[k] = Excluded
              /\ get_results_of(build_dimensions(children, s2))[k] > 0

(***************************************************************************)
(* C8 as stated: in every state size() is the number of children the        *)
(* feasibility pass did not leave out.                                      *)
(***************************************************************************)
C8_Original == size = LongestPrefix

(***************************************************************************)
(* C8 as amended: size() is the number of children neither left out by the  *)
(* feasibility pass nor pinned: it is the number of children not left out   *)
(* until the first begin_max() / begin_min(), never more than that, each    *)
(* begin drops from it every entry that is at the limit, each increment     *)
(* drops the entry it leaves when that entry is at the limit, and a write   *)
(* of a length leaves it alone.                                             *)
(***************************************************************************)
C8_SizeCountsUnpinned ==
    /\ [](limit_ = "none" => size = LongestPrefix)
    /\ [](size <= LongestPrefix)
    /\ [][(begin_max \/ begin_min) =>
            size' = Cardinality(
                {k \in 1..Len(dimensions_) :
                    /\ dimensions_[k].widget # NULL
                    /\ dimensions_[k].length
                          # get_limit(limit_', children[k])})]_vars
    /\ [][increment =>
            size' = size - (IF dimensions_[iter_].length
                                  = get_limit(limit_, children[iter_])
                            THEN 1 ELSE 0)]_vars
    /\ [][write_length => size' = size]_vars

\* One child pinned, another still in the pool.
C8_Witness ==
    /\ limit_ # "none"
    /\ size > 0
    /\ size < LongestPrefix

(***************************************************************************)
(* C9: run() without a head returns -1 and changes nothing else: the        *)
(* terminal, the queue, the focus and the widgets are as before and run()   *)
(* does not go on to the dispatch loop; set_head(nullptr) disables the      *)
(* head it replaces.                                                        *)
(***************************************************************************)
C9_RunWithoutHead ==
    /\ [][(pc = "idle" /\ head_ = NULL
              /\ (pc' # pc \/ returned' # returned)) =>
            /\ returned' = Append(returned, -1)
            /\ pc' = "idle"
            /\ UNCHANGED <<head_, initial_focus_, exit_requested_,
                           exit_signal_, enabled, focused, queue,
                           terminal_initialized, return_code_>>]_vars
    /\ [][(head_ # NULL /\ head_' = NULL) =>
            (head_ \notin enabled' /\ focused' # head_)]_vars

\* A run with a head has returned, the head was then cleared and disabled,
\* and the next run returned -1.
C9_Witness ==
    /\ Len(returned) = 2
    /\ returned[1] >= 0
    /\ returned[2] = -1
    /\ head_ = NULL
    /\ former_heads # {}
    /\ former_heads \cap enabled = {}
    /\ pc = "idle"
    /\ ~terminal_initialized

(***************************************************************************)
(* C10: System holds the widget last passed to set_head; a call             *)
(* set_head(w) disables the head it replaces, and for a non-null w leaves w *)
(* enabled and appends exactly one Resize event for w with the terminal's   *)
(* current width and height; nothing but set_head changes the head.         *)
(***************************************************************************)
C10_SetHead ==
    /\ [](head_ = head_arg)
    /\ [][head_' # head_ => head_arg' # head_arg]_vars
    /\ [][\A w \in Widgets \cup {NULL} :
            SetHeadCall(w) =>
                /\ head_' = w
                /\ (head_ # NULL /\ head_ # w) => head_ \notin enabled'
                /\ IF w # NULL
                   THEN /\ w \in enabled'
                        /\ queue' = Append(queue,
                               [type |-> "Resize", receiver |-> w,
                                area |-> [width |-> term_width,
                                          height |-> term_height]])
                   ELSE queue' = queue]_vars

\* The second widget replaced the first as head: the first is disabled, the
\* second enabled, and the last event is the Resize for the second.
C10_Witness ==
    /\ head_ = 2
    /\ 1 \in former_heads
    /\ 1 \notin enabled
    /\ 2 \in enabled
    /\ queue # <<>>
    /\ queue[Len(queue)].type = "Resize"
    /\ queue[Len(queue)].receiver = 2
    /\ queue[Len(queue)].area.width # queue[Len(queue)].area.height


(***************************************************************************)
(* C11: in every run() with a head the steps come in this order: the        *)
(* pre-selected initial focus is established, the terminal is initialized,  *)
(* a Resize event for the head is posted, the dispatch loop runs, the       *)
(* terminal is uninitialized and run() returns the loop's exit code; the    *)
(* terminal is initialized exactly from the initialize step to the          *)
(* uninitialize step, and the loop runs only in between.                    *)
(***************************************************************************)
C11_RunOrder ==
    /\ [](terminal_initialized <=> pc \in {"resize", "loop", "uninit"})
    /\ [][pc' # pc =>
             <<pc, pc'>> \in {<<"idle", "focus">>, <<"focus", "init">>,
                              <<"init", "resize">>, <<"resize", "loop">>,
                              <<"loop", "uninit">>, <<"uninit", "idle">>}]_vars
    /\ [][(pc = "idle" /\ pc' = "focus") => head_ # NULL]_vars
    /\ [][(pc = "focus" /\ pc' = "init" /\ initial_focus_ # NULL) =>
             focused' = initial_focus_]_vars
    /\ [][(pc = "resize" /\ pc' = "loop") =>
             queue' = Append(queue, Resize_event(head_,
                                        Area(term_width, term_height)))]_vars
    /\ [][(pc = "uninit" /\ pc' = "idle") =>
             /\ returned' = Append(returned, return_code_)
             /\ ~terminal_initialized']_vars
    /\ [][returned' # returned =>
             \/ pc = "uninit"
             \/ pc = "idle" /\ head_ = NULL]_vars

\* A run() with a pre-selected focus widget has returned the code 1.
C11_Witness ==
    /\ pc = "idle"
    /\ returned # <<>>
    /\ returned[Len(returned)] = 1
    /\ initial_focus_ # NULL
    /\ focused = initial_focus_
    /\ ~terminal_initialized

(***************************************************************************)
(* C12: exit(code) sets the exit-requested flag before it raises the exit   *)
(* notification with payload code, and returns without unwinding the loop   *)
(* (run() stays where it is, the terminal stays initialized); once the flag *)
(* is set the loop dispatches no further cycle and ends at its next         *)
(* iteration boundary, so run() returns and the terminal is uninitialized.  *)
(***************************************************************************)
C12_CooperativeExit ==
    /\ [](\A r \in exit_signal_ : r.exit_requested)
    /\ [][exit_signal_' # exit_signal_ =>
             /\ exit_requested_'
             /\ [payload |-> return_code_', exit_requested |-> TRUE]
                    \in exit_signal_'
             /\ pc' = pc
             /\ terminal_initialized' = terminal_initialized
             /\ returned' = returned]_vars
    /\ [][exit_requested_ => exit_requested_']_vars
    /\ [][(pc = "loop" /\ exit_requested_) =>
             /\ pc' \in {"loop", "uninit"}
             /\ Len(queue') >= Len(queue)]_vars
    /\ (pc = "loop" /\ exit_requested_)
          ~> (pc = "idle" /\ ~terminal_initialized /\ returned # <<>>)

\* exit(1) was called inside the loop with an event pending; run() returned 1
\* and the event is still pending.
C12_Witness ==
    /\ pc = "idle"
    /\ exit_requested_
    /\ [payload |-> 1, exit_requested |-> TRUE] \in exit_signal_
    /\ returned = <<1>>
    /\ ~terminal_initialized
    /\ queue # <<>>

EventsOf(log) == [i \in 1..Len(log) |-> log[i].event]

(***************************************************************************)
(* C14: events are dispatched in the order post_event appended them: the    *)
(* events dispatched so far are the first events posted, in the same        *)
(* order, and a drain takes the pending events in the order they have in    *)
(* the queue; so A, B, C posted between two cycles are dispatched A, B, C.  *)
(***************************************************************************)
C14_Fifo ==
    /\ [](/\ Len(dispatched) <= Len(posted)
          /\ \A i \in 1..Len(dispatched) :
                dispatched[i].event = posted[i].event)
    /\ [](\A i, j \in 1..Len(dispatched) :
             i < j => dispatched[i].in <= dispatched[j].in)
    /\ [][cycle' # cycle => batch' = queue]_vars

\* Three events, not all alike, were posted in the gap after the first
\* cycle and dispatched by the second cycle.
C14_Witness ==
    /\ Len(dispatched) = 4
    /\ \A i \in 2..4 : posted[i].at = 1 /\ ~posted[i].during
    /\ \A i \in 2..4 : dispatched[i].in = 2
    /\ posted[2].event # posted[3].event
    /\ posted[3].event # posted[4].event

NextInPool(dims, pos) ==
    LET live == {q \in (pos + 1)..end_of(dims) :
                   q = end_of(dims) \/ dims[q].widget # NULL}
    IN  CHOOSE q \in live : \A o \in live : q <= o

(***************************************************************************)
(* C16 as stated: when an iterator from begin_max() is advanced past an     *)
(* entry, the entry is removed iff its length has reached or exceeded its   *)
(* max, a removed entry's length equals its max, and the iterator goes to   *)
(* the next entry of the pool in positional order.                          *)
(***************************************************************************)
C16_Original ==
    [][(increment /\ limit_ = "max") =>
          /\ dimensions_'[iter_].widget = NULL
                <=> dimensions_[iter_].length >= children[iter_].max
          /\ dimensions_'[iter_].widget = NULL
                => dimensions_'[iter_].length = children[iter_].max
          /\ iter_' = NextInPool(dimensions_', iter_)]_vars

(***************************************************************************)
(* C16 as amended: when an iterator from begin_max() is advanced past an    *)
(* entry (by the caller, or by the pass begin_max() itself makes), the      *)
(* entry is removed iff its length equals its max; an entry whose length is *)
(* below or above its max stays in the pool; no other entry changes and     *)
(* the iterator goes to the next entry of the pool in positional order.     *)
(***************************************************************************)
C16_PinAtMax ==
    /\ [][(increment /\ limit_ = "max") =>
             /\ dimensions_'[iter_].widget = NULL
                   <=> dimensions_[iter_].length = children[iter_].max
             /\ dimensions_'[iter_].length = dimensions_[iter_].length
             /\ \A k \in 1..Len(dimensions_) :
                   k # iter_ => dimensions_'[k] = dimensions_[k]
             /\ iter_' = NextInPool(dimensions_', iter_)]_vars
    /\ [][begin_max =>
             /\ \A k \in 1..Len(dimensions_) :
                   dimensions_'[k].widget = NULL
                     <=> \/ dimensions_[k].widget = NULL
                         \/ dimensions_[k].length = children[k].max
             /\ iter_' = NextInPool(dimensions_', 0)]_vars

\* The iterator of a growth pass went past the first entry, whose length is
\* above its max and which is still in the pool, and pinned the second.
C16_Witness ==
    /\ limit_ = "max"
    /\ Len(children) = 2
    /\ iter_ = end
    /\ dimensions_[1].widget # NULL
    /\ dimensions_[1].length > children[1].max
    /\ dimensions_[2].widget = NULL
    /\ dimensions_[2].length = children[2].max
    /\ children[2].max > children[2].hint


C18_Frame ==
    /\ [][(begin_max \/ begin_min \/ increment) =>
             /\ get_results' = get_results
             /\ entire_length' = entire_length]_vars
    /\ [][\A k \in 1..Len(dimensions_) :
             dimensions_[k].widget = NULL =>
                 get_results'[k] = get_results[k]]_vars
    /\ [](/\ Len(get_results) = Len(children)
          /\ \A k \in 1..Len(children) :
                /\ get_results[k] = dimensions_[k].length
                /\ k > LongestPrefix => get_results[k] = 0)

\* The first child is pinned at a max above its hint, the second excluded.
C18_Witness ==
    /\ limit_ = "max"
    /\ Len(children) = 2
    /\ LongestPrefix = 1
    /\ dimensions_[1].widget = NULL
    /\ children[1].max > children[1].hint
    /\ get_results = <<children[1].max, 0>>

(***************************************************************************)
(* C19: removal is permanent and shared by the two passes: an entry that is *)
(* excluded or pinned stays removed whatever is called next, so size()      *)
(* never grows and no iterator from begin_max() or begin_min() stands on    *)
(* the entry again.                                                         *)
(***************************************************************************)
C19_RemovalPermanent ==
    /\ [][\A k \in 1..Len(dimensions_) :
             dimensions_[k].widget = NULL =>
                 /\ dimensions_'[k].widget = NULL
                 /\ iter_' # k]_vars
    /\ [][size' <= size]_vars

\* A child pinned at its max, which is above its min, is not the entry the
\* iterator of a later begin_min() starts on, although it could shrink.
C19_Witness ==
    /\ limit_ = "min"
    /\ Len(children) = 2
    /\ LongestPrefix = 2
    /\ dimensions_[1].widget = NULL
    /\ dimensions_[1].length = children[1].max
    /\ dimensions_[1].length > children[1].min
    /\ iter_ = 2

\* Whether the pass begin() makes from pos reads the policy of a removed
\* entry or steps past end().
RECURSIVE PassGoesWrong(_, _, _)
PassGoesWrong(dims, pos, kind) ==
    IF pos = end_of(dims) THEN FALSE
    ELSE IF pos > end_of(dims) \/ dims[pos].widget = NULL THEN TRUE
    ELSE LET hit  == dims[pos].length = get_limit(kind, get_policy(dims[pos]))
             next == increment_dims(dims, pos, hit)
         IN  PassGoesWrong(next, increment_pos(next, pos), kind)

(***************************************************************************)
(* C20: the iterator last returned stands at end() or on an entry whose     *)
(* widget is not null, and never behind end(); the pass that begin_max() /  *)
(* begin_min() would make never reads the policy of a removed entry either; *)
(* also for no children and when every entry is removed.                    *)
(***************************************************************************)
C20_IteratorSafe ==
    /\ iter_ \in 0..end
    /\ iter_ \in 1..Len(dimensions_) => dimensions_[iter_].widget # NULL
    /\ \A kind \in {"max", "min"} :
          ~PassGoesWrong(dimensions_, skip_removed(dimensions_, 1), kind)

\* Every entry is removed, the first pinned and the second excluded, and the
\* iterator a further begin returned is end().
C20_Witness ==
    /\ limit_ = "min"
    /\ Len(children) = 2
    /\ size = 0
    /\ dimensions_[1].length > 0
    /\ LongestPrefix = 1
    /\ iter_ = end

=============================================================================
